---- MODULE Spec2Model ----
(***************************************************************************)
(* The dependency-injection container of src/src/di/container.ts: two      *)
(* Maps (singleton registrations with a lazily filled instance slot, and   *)
(* factory registrations), the five operations on them, and the factory    *)
(* closures that callers register.                                         *)
(***************************************************************************)
EXTENDS Naturals, FiniteSets, Sequences, TLC

\* ------------------------------------------------------------------ bounds

\* Deepest nesting of getSingleton frames before the engine's call stack
\* overflows (RangeError).
MaxDepth == 2
\* Closure invocations in a run, all closures together.
MaxCalls == 3
\* Users a repository holds at most.
MaxUsers == 3
\* Closure invocations in a run that resolves both user chains (three
\* constructions each).
MaxConstructions == 6

\* ------------------------------------------------------------ JavaScript values

Undefined == [kind |-> "undefined", id |-> 0]
Num(n) == [kind |-> "number", id |-> n]
Obj(n) == [kind |-> "object", id |-> n]

\* No value at all (a caller that holds nothing yet).
NotHeld == [kind |-> "none", id |-> 0]

\* The object that exists before any factory runs (`mockRepository` of the tests).
SharedObj == Obj(0)

\* ToBoolean, as `!x` applies it: undefined and 0 are falsy, objects and
\* non-zero numbers are truthy.
Truthy(v) == v.kind = "object" \/ (v.kind = "number" /\ v.id # 0)

NoError == [name |-> "none", message |-> ""]
\* Variant: the message does not name the key.
NotRegisteredNoKey(mode, key) == [name |-> "Error", message |-> mode \o " not registered"]

NotRegistered(mode, key) == [name |-> "Error", message |-> mode \o " not registered: " \o key]
FactoryError == [name |-> "Error", message |-> "factory failed"]
StackOverflow == [name |-> "RangeError", message |-> "Maximum call stack size exceeded"]

\* ------------------------------------------------------------------- inputs

Keys == {"A", "B"}

DI_KEYS == [INTERNAL_USER_REPOSITORY |-> "InternalUserRepository",
            EXTERNAL_USER_REPOSITORY |-> "ExternalUserRepository",
            INTERNAL_USER_USECASE |-> "InternalUserUseCase",
            EXTERNAL_USER_USECASE |-> "ExternalUserUseCase",
            INTERNAL_USER_CONTROLLER |-> "InternalUserController",
            EXTERNAL_USER_CONTROLLER |-> "ExternalUserController"]

DiKeys == {DI_KEYS[n] : n \in DOMAIN DI_KEYS}

\* What the callers of the generic registry register in each namespace.
SingletonInputs == {"fNew", "fCount", "fFlaky"}
FactoryInputs == {"fNew", "fShared"}
\* What the callers register when one singleton is built from another.
DependencyInputs == {"fNew", "fWrapA", "fWrapB"}

\* The closures a caller may register (type Factory<T> = () => T).
\*   fNew    () => new X()                      a new object per call
\*   fShared () => mockRepository               the same object every call
\*   fCount  () => n++                          0, 1, 2, ...
\*   fFlaky  throws on its first call, then behaves as fNew
\*   fWrapB  () => new X(container.getSingleton("B"))
\*   fWrapA  () => new X(container.getSingleton("A"))
\* and the closures of src/src/di/users.ts, named after the key they are
\* registered under, with fMock the `() => mockRepository` of the tests.
FactoryIds == {"fNew", "fShared", "fCount", "fFlaky", "fWrapB", "fWrapA",
               "fInternalUserRepository", "fExternalUserRepository",
               "fInternalUserUseCase", "fExternalUserUseCase",
               "fInternalUserController", "fExternalUserController", "fMock"}

\* Variant: the use-case closure builds its use case without resolving the
\* repository singleton.
FactoryCodeDetached(f) ==
    CASE f = "fNew"    -> [kind |-> "new",    dep |-> ""]
      [] f = "fShared" -> [kind |-> "shared", dep |-> ""]
      [] f = "fCount"  -> [kind |-> "count",  dep |-> ""]
      [] f = "fFlaky"  -> [kind |-> "flaky",  dep |-> ""]
      [] f = "fWrapB"  -> [kind |-> "wrap",   dep |-> "B"]
      [] f = "fWrapA"  -> [kind |-> "wrap",   dep |-> "A"]
      [] f = "fInternalUserRepository" -> [kind |-> "new", dep |-> ""]
      [] f = "fExternalUserRepository" -> [kind |-> "new", dep |-> ""]
      [] f = "fInternalUserUseCase" -> [kind |-> "new", dep |-> ""]
      [] f = "fExternalUserUseCase" ->
            [kind |-> "wrap", dep |-> DI_KEYS.EXTERNAL_USER_REPOSITORY]
      [] f = "fInternalUserController" ->
            [kind |-> "wrap", dep |-> DI_KEYS.INTERNAL_USER_USECASE]
      [] f = "fExternalUserController" ->
            [kind |-> "wrap", dep |-> DI_KEYS.EXTERNAL_USER_USECASE]
      [] f = "fMock" -> [kind |-> "shared", dep |-> ""]

FactoryCode(f) ==
    CASE f = "fNew"    -> [kind |-> "new",    dep |-> ""]
      [] f = "fShared" -> [kind |-> "shared", dep |-> ""]
      [] f = "fCount"  -> [kind |-> "count",  dep |-> ""]
      [] f = "fFlaky"  -> [kind |-> "flaky",  dep |-> ""]
      [] f = "fWrapB"  -> [kind |-> "wrap",   dep |-> "B"]
      [] f = "fWrapA"  -> [kind |-> "wrap",   dep |-> "A"]
      [] f = "fInternalUserRepository" -> [kind |-> "new", dep |-> ""]
      [] f = "fExternalUserRepository" -> [kind |-> "new", dep |-> ""]
      [] f = "fInternalUserUseCase" ->
            [kind |-> "wrap", dep |-> DI_KEYS.INTERNAL_USER_REPOSITORY]
      [] f = "fExternalUserUseCase" ->
            [kind |-> "wrap", dep |-> DI_KEYS.EXTERNAL_USER_REPOSITORY]
      [] f = "fInternalUserController" ->
            [kind |-> "wrap", dep |-> DI_KEYS.INTERNAL_USER_USECASE]
      [] f = "fExternalUserController" ->
            [kind |-> "wrap", dep |-> DI_KEYS.EXTERNAL_USER_USECASE]
      [] f = "fMock" -> [kind |-> "shared", dep |-> ""]

\* -------------------------------------------------------------------- state

VARIABLES
    singletons,   \* Map<string, {instance?, factory}>
    factories,    \* Map<string, Factory>
    calls,        \* per closure: how many times it has been invoked
    nextRef,      \* identity of the next object `new` constructs
    heap,         \* per constructed object: the dependency it was built with
    last,         \* the latest registry call and how it ended
    held,         \* per key: the value a caller got from its first successful
                  \* getSingleton(key) since the key's current registration
    tasks,        \* per task: how far its getSingleton call has got when the
                  \* calls are not run to completion one at a time
    app,          \* which application serves the user requests
    hooked,       \* whether the onError hook of the application serves its
                  \* routes: createTestApp registers it on the instance that
                  \* owns the routes; errorHandler registers it on an instance
                  \* of its own, which the router only `.use`s, and whether
                  \* such a hook reaches the router's routes is the
                  \* framework's choice
    users,        \* the repository's `users` array
    currentId,    \* MockUserRepository.currentId
    resp          \* the latest user request and the response to it

userVars == <<app, hooked, users, currentId, resp>>

\* What a call that runs to completion on the registry leaves alone.
elsewhere == <<tasks, userVars>>

containerVars == <<singletons, factories, calls, nextRef, heap, last, held, tasks>>

vars == <<singletons, factories, calls, nextRef, heap, last, held, tasks,
          app, hooked, users, currentId, resp>>

\* Map operations.
MapHas(m, key) == key \in DOMAIN m
MapSet(m, key, v) == [k \in DOMAIN m \cup {key} |-> IF k = key THEN v ELSE m[k]]
EmptyMap == << >>

State == [singletons |-> singletons, factories |-> factories, calls |-> calls,
          nextRef |-> nextRef, heap |-> heap]

Ret(st, v) == [st |-> st, threw |-> FALSE, value |-> v, error |-> NoError]
Throw(st, e) == [st |-> st, threw |-> TRUE, value |-> Undefined, error |-> e]

\* `new X(dep)`: a fresh object identity.
Construct(st, dep) ==
    Ret([st EXCEPT !.nextRef = @ + 1, !.heap = MapSet(@, st.nextRef, dep)],
        Obj(st.nextRef))

\* ------------------------------------------------------------- the container

\* `!singleton.instance` negated: the slot counts as filled.
IsCached(singleton) == Truthy(singleton.instance)

\* Variant: the assignment only fills a slot that is still empty.
StoreInstanceIfEmpty(st, key, v) ==
    IF IsCached(st.singletons[key]) THEN st
    ELSE [st EXCEPT !.singletons[key].instance = v]

\* `singleton.instance = <value>`.
StoreInstance(st, key, v) == [st EXCEPT !.singletons[key].instance = v]

RECURSIVE getSingleton(_, _, _)
RECURSIVE Invoke(_, _, _)

\* singleton.factory() / factory(): run closure f with `depth` registry frames
\* below it.
Invoke(st, f, depth) ==
    LET code == FactoryCode(f)
        n == st.calls[f]
        st1 == [st EXCEPT !.calls[f] = @ + 1]
    IN  CASE code.kind = "new"    -> Construct(st1, Undefined)
          [] code.kind = "shared" -> Ret(st1, SharedObj)
          [] code.kind = "count"  -> Ret(st1, Num(n))
          [] code.kind = "flaky"  -> IF n = 0 THEN Throw(st1, FactoryError)
                                     ELSE Construct(st1, Undefined)
          [] code.kind = "wrap"   ->
                LET r == getSingleton(st1, code.dep, depth + 1)
                IN  IF r.threw THEN r ELSE Construct(r.st, r.value)

\* Variant: an error thrown by the factory is swallowed and undefined returned.
getSingletonSwallow(st, key, depth) ==
    IF depth > MaxDepth THEN Throw(st, StackOverflow)
    ELSE IF ~MapHas(st.singletons, key) THEN Throw(st, NotRegistered("Singleton", key))
    ELSE LET singleton == st.singletons[key]
         IN  IF ~IsCached(singleton)
             THEN LET r == Invoke(st, singleton.factory, depth)
                  IN  IF r.threw THEN Ret(r.st, Undefined)
                      ELSE Ret(StoreInstance(r.st, key, r.value), r.value)
             ELSE Ret(st, singleton.instance)

\* Variant: a re-entrant resolution is cut short with undefined instead of
\* recursing until the stack overflows.
getSingletonCycleGuard(st, key, depth) ==
    IF depth > MaxDepth THEN Ret(st, Undefined)
    ELSE IF ~MapHas(st.singletons, key) THEN Throw(st, NotRegistered("Singleton", key))
    ELSE LET singleton == st.singletons[key]
         IN  IF ~IsCached(singleton)
             THEN LET r == Invoke(st, singleton.factory, depth)
                  IN  IF r.threw THEN r
                      ELSE Ret(StoreInstance(r.st, key, r.value), r.value)
             ELSE Ret(st, singleton.instance)

getSingleton(st, key, depth) ==
    IF depth > MaxDepth THEN Throw(st, StackOverflow)
    ELSE IF ~MapHas(st.singletons, key) THEN Throw(st, NotRegistered("Singleton", key))
    ELSE LET singleton == st.singletons[key]
         IN  IF ~IsCached(singleton)
             THEN LET r == Invoke(st, singleton.factory, depth)
                  IN  IF r.threw THEN r
                      ELSE Ret(StoreInstance(r.st, key, r.value), r.value)
             ELSE Ret(st, singleton.instance)

\* Variant: the result of the first call is kept and handed out again.
getFactoryMemo(st, key) ==
    IF ~MapHas(st.factories, key) THEN Throw(st, NotRegistered("Factory", key))
    ELSE IF st.calls[st.factories[key]] > 0 THEN Ret(st, Obj(st.nextRef - 1))
    ELSE Invoke(st, st.factories[key], 0)

getFactory(st, key) ==
    IF ~MapHas(st.factories, key) THEN Throw(st, NotRegistered("Factory", key))
    ELSE Invoke(st, st.factories[key], 0)

\* Variant: the first registration of a key wins.
registerSingletonKeepFirst(st, key, f) ==
    IF MapHas(st.singletons, key) THEN st
    ELSE [st EXCEPT !.singletons =
              MapSet(@, key, [factory |-> f, instance |-> Undefined])]

\* Variant: an existing entry gets the new factory and keeps its instance.
registerSingletonKeepInstance(st, key, f) ==
    [st EXCEPT !.singletons =
        MapSet(@, key, [factory |-> f,
                        instance |-> IF MapHas(st.singletons, key)
                                     THEN st.singletons[key].instance
                                     ELSE Undefined])]

\* Variant: a registration builds the instance at once (an error of the
\* factory leaves the slot empty).
registerSingletonEager(st, key, f) ==
    getSingleton([st EXCEPT !.singletons =
                     MapSet(@, key, [factory |-> f, instance |-> Undefined])],
                 key, 0).st

\* Variant: a registration also empties the slot of every other singleton, so
\* that dependents are rebuilt.
registerSingletonInvalidating(st, key, f) ==
    [st EXCEPT !.singletons =
        MapSet([k \in DOMAIN @ |-> [factory |-> @[k].factory, instance |-> Undefined]],
               key, [factory |-> f, instance |-> Undefined])]

registerSingleton(st, key, f) ==
    [st EXCEPT !.singletons = MapSet(@, key, [factory |-> f, instance |-> Undefined])]

\* Variant: one Map holds both kinds of registration.
registerFactoryOneMap(st, key, f) ==
    [st EXCEPT !.factories = MapSet(@, key, f),
               !.singletons = MapSet(@, key, [factory |-> f, instance |-> Undefined])]

\* Variant: a factory registration empties the cache slot of every singleton.
registerFactoryInvalidating(st, key, f) ==
    [st EXCEPT !.factories = MapSet(@, key, f),
               !.singletons = [k \in DOMAIN @ |-> [@[k] EXCEPT !.instance = Undefined]]]

registerFactory(st, key, f) ==
    [st EXCEPT !.factories = MapSet(@, key, f)]

\* Variant: singletons.clear() is forgotten.
resetFactoriesOnly(st) == [st EXCEPT !.factories = EmptyMap]

\* Variant: factories.clear() is forgotten.
resetSingletonsOnly(st) == [st EXCEPT !.singletons = EmptyMap]

reset(st) == [st EXCEPT !.singletons = EmptyMap, !.factories = EmptyMap]

\* ------------------------------------------------------------- user repositories

Null == [kind |-> "null", id |-> 0]

\* Object spread { ...a, ...b }: b's properties win.
Spread(a, b) ==
    [k \in DOMAIN a \cup DOMAIN b |-> IF k \in DOMAIN b THEN b[k] ELSE a[k]]

\* Array.prototype.findIndex(u => u.id === id), 1-based; 0 stands for -1.
FindIndex(us, id) ==
    IF \E i \in 1..Len(us) : us[i].id = id
    THEN CHOOSE i \in 1..Len(us) :
            us[i].id = id /\ \A j \in 1..(i - 1) : us[j].id # id
    ELSE 0

\* Math.max(...us.map(u => u.id)) of a non-empty array.
MaxIdOf(us) ==
    CHOOSE m \in {us[i].id : i \in 1..Len(us)} : \A i \in 1..Len(us) : us[i].id <= m

\* Array.prototype.splice(idx, 1).
Splice(us, idx) == [i \in 1..(Len(us) - 1) |-> IF i < idx THEN us[i] ELSE us[i + 1]]

\* The application's internal repository class.
RepositoryKind(a) ==
    IF a = "production" THEN "InMemoryUserRepository" ELSE "MockUserRepository"

Repository == [kind |-> RepositoryKind(app), users |-> users, currentId |-> currentId]

\* MockUserRepository test utilities.
setUsers(rs, us) ==
    [rs EXCEPT !.users = us,
               !.currentId = IF Len(us) > 0 THEN MaxIdOf(us) + 1 ELSE @]

clear(rs) == [rs EXCEPT !.users = << >>, !.currentId = 1]

\* ExternalApiUserRepository: the methods that are not implemented throw.
NotImplemented == [name |-> "Error", message |-> "Not implemented for external API"]

\* A fetch that does not get an answer rejects.
FetchFailed == [name |-> "TypeError", message |-> "fetch failed"]

\* ExternalApiUserRepository: await fetch(url).then(res => res.json()), with
\* rs.fetched what the network does with this request.
FetchJson(rs) ==
    IF rs.fetched.failed THEN Throw(rs, FetchFailed) ELSE Ret(rs, rs.fetched.json)

IsExternal(rs) == rs.kind = "ExternalApiUserRepository"

findAll(rs) == IF IsExternal(rs) THEN FetchJson(rs) ELSE Ret(rs, rs.users)

findById(rs, id) ==
    IF IsExternal(rs) THEN FetchJson(rs)
    ELSE LET idx == FindIndex(rs.users, id)
         IN  Ret(rs, IF idx = 0 THEN Null ELSE rs.users[idx])

\* Variant: the in-memory repository numbers a new user by the array length.
createByLength(rs, data) ==
    LET id == IF rs.kind = "InMemoryUserRepository" THEN Len(rs.users) + 1
              ELSE rs.currentId
        newUser == Spread([id |-> id], data)
    IN  Ret([rs EXCEPT !.users = Append(@, newUser),
                       !.currentId = IF rs.kind = "InMemoryUserRepository"
                                     THEN @ ELSE @ + 1],
            newUser)

\* Variant: the in-memory repository numbers a new user after the last
\* stored one.
createAfterLast(rs, data) ==
    LET id == IF rs.kind = "InMemoryUserRepository"
              THEN (IF Len(rs.users) # 0 THEN rs.users[Len(rs.users)].id + 1 ELSE 1)
              ELSE rs.currentId
        newUser == Spread([id |-> id], data)
    IN  Ret([rs EXCEPT !.users = Append(@, newUser),
                       !.currentId = IF rs.kind = "InMemoryUserRepository"
                                     THEN @ ELSE @ + 1],
            newUser)

create(rs, data) ==
    IF IsExternal(rs) THEN Throw(rs, NotImplemented) ELSE
    LET id == IF rs.kind = "InMemoryUserRepository"
              THEN (IF Len(rs.users) # 0 THEN MaxIdOf(rs.users) + 1 ELSE 1)
              ELSE rs.currentId
        newUser == Spread([id |-> id], data)
    IN  Ret([rs EXCEPT !.users = Append(@, newUser),
                       !.currentId = IF rs.kind = "InMemoryUserRepository"
                                     THEN @ ELSE @ + 1],
            newUser)

\* Variant: an update always stores its user at the end.
updateByAppending(rs, id, data) ==
    LET updatedUser == Spread([id |-> id], data)
    IN  Ret([rs EXCEPT !.users = Append(@, updatedUser)], updatedUser)

\* Variant: an update never adds a user.
updateExistingOnly(rs, id, data) ==
    LET idx == FindIndex(rs.users, id)
        updatedUser == Spread([id |-> id], data)
    IN  IF idx = 0 THEN Ret(rs, updatedUser)
        ELSE Ret([rs EXCEPT !.users[idx] = updatedUser], updatedUser)

update(rs, id, data) ==
    IF IsExternal(rs) THEN Throw(rs, NotImplemented) ELSE
    LET idx == FindIndex(rs.users, id)
        updatedUser == Spread([id |-> id], data)
    IN  IF idx = 0 THEN Ret([rs EXCEPT !.users = Append(@, updatedUser)], updatedUser)
        ELSE Ret([rs EXCEPT !.users[idx] = updatedUser], updatedUser)

\* Variant: the patch replaces the user by the patch data and the id.
patchReplace(rs, id, data) ==
    LET idx == FindIndex(rs.users, id)
    IN  IF idx = 0 THEN Ret(rs, Null)
        ELSE LET patchedUser == Spread([id |-> id], data)
             IN  Ret([rs EXCEPT !.users[idx] = patchedUser], patchedUser)

patch(rs, id, data) ==
    IF IsExternal(rs) THEN Throw(rs, NotImplemented) ELSE
    LET idx == FindIndex(rs.users, id)
    IN  IF idx = 0 THEN Ret(rs, Null)
        ELSE LET patchedUser == Spread(rs.users[idx], data)
             IN  Ret([rs EXCEPT !.users[idx] = patchedUser], patchedUser)

\* Variant: the last user is removed whichever id is asked for.
deleteLast(rs, id) ==
    LET idx == FindIndex(rs.users, id)
    IN  IF idx = 0 THEN Ret(rs, FALSE)
        ELSE Ret([rs EXCEPT !.users = SubSeq(@, 1, Len(@) - 1)], TRUE)

delete(rs, id) ==
    IF IsExternal(rs) THEN Throw(rs, NotImplemented) ELSE
    LET idx == FindIndex(rs.users, id)
    IN  IF idx = 0 THEN Ret(rs, FALSE)
        ELSE Ret([rs EXCEPT !.users = Splice(@, idx)], TRUE)

\* ------------------------------------------------------- use case and HTTP layer

\* Template literal `User with id ${id} not found`.
NotFoundMessage(id) == "User with id " \o ToString(id) \o " not found"

\* new NotFoundError(message): HttpError with statusCode 404.
NotFoundError(message) ==
    [name |-> "NotFoundError", message |-> message, statusCode |-> 404]

\* error instanceof HttpError.
IsHttpError(error) == "statusCode" \in DOMAIN error

\* The framework's error for a body that fails its schema.
ValidationFailure == [name |-> "ValidationError", message |-> "invalid body"]

getUsers(rs) == findAll(rs)

\* Variant: a missing user is answered with null instead of an error.
getUserByIdOrNull(rs, id) == findById(rs, id)

getUserById(rs, id) ==
    LET r == findById(rs, id)
    IN  IF r.value = Null THEN Throw(r.st, NotFoundError(NotFoundMessage(id))) ELSE r

createUser(rs, data) == create(rs, data)

updateUser(rs, id, data) == update(rs, id, data)

patchUser(rs, id, data) ==
    LET r == patch(rs, id, data)
    IN  IF r.value = Null THEN Throw(r.st, NotFoundError(NotFoundMessage(id))) ELSE r

deleteUser(rs, id) ==
    LET r == delete(rs, id)
    IN  IF r.threw THEN r
        ELSE IF ~r.value THEN Throw(r.st, NotFoundError(NotFoundMessage(id)))
        ELSE Ret(r.st, Undefined)

\* The status each application's onError gives a VALIDATION error.
ValidationStatus(a) == IF a = "production" THEN 400 ELSE 422

\* new HttpError(statusCode, message, details).
HttpError(statusCode, message, details) ==
    [name |-> "HttpError", message |-> message, statusCode |-> statusCode,
     details |-> details]

\* The subclasses of HttpError: their status and their default message.
HttpErrorClasses ==
    [BadRequestError |-> [statusCode |-> 400, message |-> "Bad Request"],
     UnauthorizedError |-> [statusCode |-> 401, message |-> "Unauthorized"],
     ForbiddenError |-> [statusCode |-> 403, message |-> "Forbidden"],
     NotFoundError |-> [statusCode |-> 404, message |-> "Not Found"],
     InternalServerError |-> [statusCode |-> 500, message |-> "Internal Server Error"]]

\* new <class>(...args): a missing message takes the class default, missing
\* details are undefined; the constructor then sets the name.
NewHttpError(class, args) ==
    LET message == IF Len(args) >= 1 THEN args[1] ELSE HttpErrorClasses[class].message
        details == IF Len(args) >= 2 THEN args[2] ELSE Undefined
    IN  [HttpError(HttpErrorClasses[class].statusCode, message, details)
            EXCEPT !.name = class]

\* error.details (undefined when the property is absent).
DetailsOf(error) == IF "details" \in DOMAIN error THEN error.details ELSE Undefined

\* ...(error.details && { details: error.details })
DetailsSpread(error) ==
    IF Truthy(DetailsOf(error)) THEN [details |-> DetailsOf(error)] ELSE << >>

\* The handler's switch on the framework's error code.
onErrorCode(a, code, error) ==
    CASE code = "VALIDATION" ->
                [status |-> ValidationStatus(a),
                 body |-> [error |-> "ValidationError", message |-> "Validation failed",
                           statusCode |-> ValidationStatus(a),
                           details |-> error.message]]
           [] code = "NOT_FOUND" ->
                [status |-> 404,
                 body |-> [error |-> "NotFound", message |-> "Route not found",
                           statusCode |-> 404]]
           [] code = "PARSE" ->
                [status |-> 400,
                 body |-> [error |-> "ParseError", message |-> "Failed to parse request",
                           statusCode |-> 400]]
           [] OTHER ->
                [status |-> 500,
                 body |-> [error |-> "InternalServerError",
                           message |-> "An unexpected error occurred",
                           statusCode |-> 500]]

\* Variant: the instanceof test never matches, every error goes by its code.
onErrorByCodeOnly(a, code, error) == onErrorCode(a, code, error)

\* onError of errorHandler (production) and of createTestApp (test).
onError(a, code, error) ==
    IF IsHttpError(error)
    THEN [status |-> error.statusCode,
          body |-> Spread([error |-> error.name, message |-> error.message,
                           statusCode |-> error.statusCode],
                          DetailsSpread(error))]
    ELSE CASE code = "VALIDATION" ->
                [status |-> ValidationStatus(a),
                 body |-> [error |-> "ValidationError", message |-> "Validation failed",
                           statusCode |-> ValidationStatus(a),
                           details |-> error.message]]
           [] code = "NOT_FOUND" ->
                [status |-> 404,
                 body |-> [error |-> "NotFound", message |-> "Route not found",
                           statusCode |-> 404]]
           [] code = "PARSE" ->
                [status |-> 400,
                 body |-> [error |-> "ParseError", message |-> "Failed to parse request",
                           statusCode |-> 400]]
           [] OTHER ->
                [status |-> 500,
                 body |-> [error |-> "InternalServerError",
                           message |-> "An unexpected error occurred",
                           statusCode |-> 500]]

\* What the framework answers to an error that no onError hook serves: 422
\* and the description of the failure for a value that fails its schema,
\* otherwise the error's `status` (HttpError has none) or 500, and the
\* error's message as text.
FrameworkAnswer(code, error) ==
    IF code = "VALIDATION"
    THEN [status |-> 422, body |-> [type |-> "validation", message |-> error.message]]
    ELSE [status |-> 500, body |-> [text |-> error.message]]

\* What onError answers when a handler returned or threw.
Respond(a, r) ==
    IF r.threw THEN onError(a, "UNKNOWN", r.error)
    ELSE [status |-> 200, body |-> r.value]

\* The properties a body schema requires.
CreateUserBodySchema == {"name", "username", "email", "company"}

UpdateUserBodySchema == {"name", "username", "email", "company"}

\* t.Partial(...): no property is required.
PatchUserNameSchema == {}

\* The properties UserSchema requires.
UserSchema == {"id", "name", "username", "email", "company"}

Validates(schema, body) == schema \subseteq DOMAIN body

\* What the service at baseUrl holds; it is not under the program's control.
RemoteUsers ==
    << [id |-> 1, name |-> "Leanne Graham", username |-> "Bret",
        email |-> "Sincere@april.biz", company |-> [name |-> "Romaguera-Crona"]],
       [id |-> 2, name |-> "Ervin Howell", username |-> "Antonette",
        email |-> "Shanna@melissa.tv", company |-> [name |-> "Deckow-Crist"]] >>

\* The JSON object {}.
EmptyObject == [k \in {} |-> Undefined]

\* No request is sent.
NoFetch == [failed |-> TRUE, json |-> Undefined]

\* What a fetch of baseUrl (id = 0) or of `${baseUrl}/${id}` can end in: no
\* answer, or the JSON the service sends, {} for a user it does not have.
FetchOutcomes(id) ==
    {NoFetch} \cup
    {[failed |-> FALSE,
      json |-> IF id = 0 THEN RemoteUsers
               ELSE IF FindIndex(RemoteUsers, id) # 0
                    THEN RemoteUsers[FindIndex(RemoteUsers, id)]
               ELSE EmptyObject]}

Routes == {"GET /", "GET /:id", "POST /", "PUT /:id", "PATCH /:id/name", "DELETE /:id"}

ReadRoutes == {"GET /", "GET /:id"}

\* Variant: every route is served by the internal controller.
RouteControllerInternalOnly(route) == DI_KEYS.INTERNAL_USER_CONTROLLER

\* The module constant a route's handler calls, named by the key it was
\* resolved under: externalController for the GET routes, controller for
\* the others.
RouteController(route) ==
    IF route \in ReadRoutes THEN DI_KEYS.EXTERNAL_USER_CONTROLLER
    ELSE DI_KEYS.INTERNAL_USER_CONTROLLER

\* The controller method a route's handler calls.
RouteMethod(route) ==
    CASE route = "GET /" -> "getUsers"
      [] route = "GET /:id" -> "getUserById"
      [] route = "POST /" -> "createUser"
      [] route = "PUT /:id" -> "updateUser"
      [] route = "PATCH /:id/name" -> "patchUser"
      [] route = "DELETE /:id" -> "deleteUser"

\* The external repository at a request the network answers with `fetched`.
ExternalRepository(fetched) ==
    [kind |-> "ExternalApiUserRepository",
     baseUrl |-> "https://jsonplaceholder.typicode.com/users", fetched |-> fetched]

\* The use case method on a repository.
Call(method, rs, id, body) ==
    CASE method = "getUsers" -> getUsers(rs)
      [] method = "getUserById" -> getUserById(rs, id)
      [] method = "createUser" -> createUser(rs, body)
      [] method = "updateUser" -> updateUser(rs, id, body)
      [] method = "patchUser" -> patchUser(rs, id, body)
      [] method = "deleteUser" -> deleteUser(rs, id)

\* The properties the schema of a route's body requires; an empty set where
\* the route has no body schema or, as PatchUserNameSchema, requires nothing.
BodySchema(route) ==
    CASE route = "POST /" -> CreateUserBodySchema
      [] route = "PUT /:id" -> UpdateUserBodySchema
      [] route = "PATCH /:id/name" -> PatchUserNameSchema
      [] OTHER -> {}

\* The schema of a route's response.
ResponseSchema(route) ==
    CASE route = "GET /" -> "UserListResponseSchema"
      [] route = "DELETE /:id" -> "DeleteResponseSchema"
      [] OTHER -> "UserResponseSchema"

\* A value passes a response schema: t.Array(UserSchema), t.Void() or
\* UserSchema.
ValidResponse(schema, v) ==
    CASE schema = "UserListResponseSchema" ->
            \A i \in DOMAIN v : Validates(UserSchema, v[i])
      [] schema = "DeleteResponseSchema" -> v = Undefined
      [] schema = "UserResponseSchema" -> Validates(UserSchema, v)

\* The answer to an error raised while a route is served: onError's where
\* the hook serves the route, the framework's own otherwise.
ErrorAnswer(code, error) ==
    IF hooked THEN onError(app, code, error) ELSE FrameworkAnswer(code, error)

\* A route's answer: the body is validated against the route's schema, then
\* the handler runs, what it returns is validated against the response
\* schema, and what is thrown on the way is answered as an error.
Answer(route, rs, id, body) ==
    IF ~Validates(BodySchema(route), body)
    THEN [st |-> rs, answer |-> ErrorAnswer("VALIDATION", ValidationFailure)]
    ELSE LET r == Call(RouteMethod(route), rs, id, body)
         IN  [st |-> r.st,
              answer |-> IF r.threw THEN ErrorAnswer("UNKNOWN", r.error)
                         ELSE IF ~ValidResponse(ResponseSchema(route), r.value)
                         THEN ErrorAnswer("VALIDATION", ValidationFailure)
                         ELSE [status |-> 200, body |-> r.value]]

\* The repository that serves a route in each application: in production the
\* router's two controllers, in the tests the one internal controller on the
\* mock.
AppRepository(route, fetched) ==
    IF app = "production" /\ RouteController(route) = DI_KEYS.EXTERNAL_USER_CONTROLLER
    THEN ExternalRepository(fetched)
    ELSE Repository

\* ------------------------------------------------------------------ actions

RECURSIVE Sum(_, _)
Sum(fn, S) == IF S = {} THEN 0
              ELSE LET x == CHOOSE y \in S : TRUE IN fn[x] + Sum(fn, S \ {x})

TotalCalls(st) == Sum(st.calls, FactoryIds)

WithinBounds(st) == TotalCalls(st) <= MaxCalls

Commit(st) ==
    /\ WithinBounds(st)
    /\ singletons' = st.singletons
    /\ factories' = st.factories
    /\ calls' = st.calls
    /\ nextRef' = st.nextRef
    /\ heap' = st.heap

\* No entry under a key.
NoEntry == [factory |-> "", instance |-> Undefined]

\* A call as its caller sees it: the operation, its arguments (arg is the
\* factory passed to a register call), the value returned or error thrown,
\* and for registerSingleton the entry the key had before the call.
Outcome(op, key, arg, r) ==
    [op |-> op, key |-> key, arg |-> arg,
     threw |-> r.threw, value |-> r.value, error |-> r.error,
     old |-> IF op = "registerSingleton" /\ MapHas(singletons, key)
             THEN singletons[key] ELSE NoEntry]

Void == Ret(0, Undefined)

Tasks == {"t1", "t2"}

\* A task that has not called getSingleton yet.
Idle == [pc |-> "idle", key |-> "", made |-> NotHeld, overwrote |-> FALSE,
         result |-> NotHeld]

\* No user request has been served.
NoRequest == [op |-> "none", id |-> 0, data |-> << >>, status |-> 0, body |-> << >>]

NoUsers ==
    /\ app = "production"
    /\ hooked = FALSE
    /\ users = << >>
    /\ currentId = 1
    /\ resp = NoRequest

Init ==
    /\ NoUsers
    /\ tasks = [t \in Tasks |-> Idle]
    /\ singletons = EmptyMap
    /\ factories = EmptyMap
    /\ calls = [f \in FactoryIds |-> 0]
    /\ nextRef = 1
    /\ heap = EmptyMap
    /\ last = Outcome("none", "", "", Void)
    /\ held = [k \in Keys |-> NotHeld]

RegisterSingleton(key, f) ==
    /\ Commit(registerSingleton(State, key, f))
    /\ last' = Outcome("registerSingleton", key, f, Void)
    /\ held' = [held EXCEPT ![key] = NotHeld]
    /\ UNCHANGED elsewhere

RegisterFactory(key, f) ==
    /\ Commit(registerFactory(State, key, f))
    /\ last' = Outcome("registerFactory", key, f, Void)
    /\ UNCHANGED held
    /\ UNCHANGED elsewhere

GetSingleton(key) ==
    LET r == getSingleton(State, key, 0)
    IN  /\ Commit(r.st)
        /\ last' = Outcome("getSingleton", key, "", r)
        /\ held' = IF r.threw \/ held[key] # NotHeld THEN held
                   ELSE [held EXCEPT ![key] = r.value]
        /\ UNCHANGED elsewhere

GetFactory(key) ==
    LET r == getFactory(State, key)
    IN  /\ Commit(r.st)
        /\ last' = Outcome("getFactory", key, "", r)
        /\ UNCHANGED held
        /\ UNCHANGED elsewhere

Reset ==
    /\ Commit(reset(State))
    /\ last' = Outcome("reset", "", "", Void)
    /\ held' = [k \in DOMAIN held |-> NotHeld]
    /\ UNCHANGED elsewhere

Next ==
    \/ \E key \in Keys, f \in SingletonInputs : RegisterSingleton(key, f)
    \/ \E key \in Keys, f \in FactoryInputs : RegisterFactory(key, f)
    \/ \E key \in Keys : GetSingleton(key)
    \/ \E key \in Keys : GetFactory(key)
    \/ Reset

Spec == Init /\ [][Next]_vars

\* The registry used the way src/src/di/users.ts uses it: singletons only,
\* some of them built from another singleton.
NextDependencies ==
    \/ \E key \in Keys, f \in DependencyInputs : RegisterSingleton(key, f)
    \/ \E key \in Keys : GetSingleton(key)
    \/ Reset

SpecDependencies == Init /\ [][NextDependencies]_vars

\* Both namespaces in use over three keys, with closures in either namespace
\* that resolve a singleton: singletons built from the singleton "B", and a
\* factory under "C" whose every call resolves the singleton "A", so that a
\* call may resolve "A" alone, "A" and "B", or neither, and some key always
\* lies outside what it resolves.
NamespaceKeys == {"A", "B", "C"}
NamespaceSingletonInputs == {"fNew", "fWrapB"}
NamespaceFactoryKeys == {"C"}
NamespaceFactoryInputs == {"fShared", "fWrapA"}

InitNamespaces ==
    /\ NoUsers
    /\ tasks = [t \in Tasks |-> Idle]
    /\ singletons = EmptyMap
    /\ factories = EmptyMap
    /\ calls = [f \in FactoryIds |-> 0]
    /\ nextRef = 1
    /\ heap = EmptyMap
    /\ last = Outcome("none", "", "", Void)
    /\ held = [k \in NamespaceKeys |-> NotHeld]

NextNamespaces ==
    \/ \E key \in NamespaceKeys, f \in NamespaceSingletonInputs :
          RegisterSingleton(key, f)
    \/ \E key \in NamespaceFactoryKeys, f \in NamespaceFactoryInputs :
          RegisterFactory(key, f)
    \/ \E key \in NamespaceKeys : GetSingleton(key)
    \/ \E key \in NamespaceFactoryKeys : GetFactory(key)
    \/ Reset

SpecNamespaces == InitNamespaces /\ [][NextNamespaces]_vars

\* ------------------------------------------------------------ the user requests

UserBodies ==
    { [name |-> "Test User 1", username |-> "testuser1",
       email |-> "test1@example.com", company |-> [name |-> "Test Company 1"]],
      [name |-> "New User", username |-> "newuser",
       email |-> "newuser@example.com", company |-> [name |-> "New Company"]] }

\* A body without username, email and company.
InvalidBody == [name |-> "Incomplete User"]

PatchBodies == { << >>, [name |-> "Patched Name"] }

\* The user ids of a run: requested in a path, or given to a new user.
Ids == {1, 2, 3}

\* The users the tests put into the mock repository.
SampleUsers ==
    << [id |-> 1, name |-> "Test User 1", username |-> "testuser1",
        email |-> "test1@example.com", company |-> [name |-> "Test Company 1"]],
       [id |-> 2, name |-> "Test User 2", username |-> "testuser2",
        email |-> "test2@example.com", company |-> [name |-> "Test Company 2"]] >>

InitUsers ==
    /\ app \in {"production", "test"}
    /\ hooked \in BOOLEAN
    /\ app = "test" => hooked
    /\ users = << >>
    /\ currentId = 1
    /\ resp = NoRequest
    /\ tasks = [t \in Tasks |-> Idle]
    /\ singletons = EmptyMap
    /\ factories = EmptyMap
    /\ calls = [f \in FactoryIds |-> 0]
    /\ nextRef = 1
    /\ heap = EmptyMap
    /\ last = Outcome("none", "", "", Void)
    /\ held = [k \in Keys |-> NotHeld]

\* The repository after a call, within the bounds of a run.
CommitUsers(rs) ==
    /\ Len(rs.users) <= MaxUsers
    /\ \A i \in 1..Len(rs.users) : rs.users[i].id \in Ids
    /\ rs.currentId - 1 \in Ids \cup {0}
    /\ users' = rs.users
    /\ currentId' = rs.currentId
    /\ UNCHANGED <<app, hooked>>
    /\ UNCHANGED containerVars

Request(op, id, data, answer) ==
    [op |-> op, id |-> id, data |-> data, status |-> answer.status, body |-> answer.body]

SetUsers(us) ==
    /\ app = "test"
    /\ CommitUsers(setUsers(Repository, us))
    /\ resp' = NoRequest

Clear ==
    /\ app = "test"
    /\ CommitUsers(clear(Repository))
    /\ resp' = NoRequest

\* A request to a route: its answer, and what its handler did to the
\* internal repository.
Serve(route, id, body, fetched) ==
    \E a \in {Answer(route, AppRepository(route, fetched), id, body)} :
        /\ CommitUsers(IF IsExternal(a.st) THEN Repository ELSE a.st)
        /\ resp' = Request(RouteMethod(route), id, body, a.answer)

\* The tests' application sends no request to the external service.
AppFetchOutcomes(id) == IF app = "production" THEN FetchOutcomes(id) ELSE {NoFetch}

GetUsers(fetched) == Serve("GET /", 0, << >>, fetched)

GetUserById(id, fetched) == Serve("GET /:id", id, << >>, fetched)

CreateUser(body) == Serve("POST /", 0, body, NoFetch)

UpdateUser(id, body) == Serve("PUT /:id", id, body, NoFetch)

PatchUser(id, body) == Serve("PATCH /:id/name", id, body, NoFetch)

DeleteUser(id) == Serve("DELETE /:id", id, << >>, NoFetch)

NextUsers ==
    \/ SetUsers(SampleUsers)
    \/ Clear
    \/ \E fetched \in AppFetchOutcomes(0) : GetUsers(fetched)
    \/ \E id \in Ids : \E fetched \in AppFetchOutcomes(id) : GetUserById(id, fetched)
    \/ \E body \in UserBodies \cup {InvalidBody} : CreateUser(body)
    \/ \E id \in Ids, body \in UserBodies : UpdateUser(id, body)
    \/ \E id \in Ids, body \in PatchBodies : PatchUser(id, body)
    \/ \E id \in Ids : DeleteUser(id)

SpecUsers == InitUsers /\ [][NextUsers]_vars

\* ------------------------------------------------------------- errors in handlers

\* What a handler may pass as `details`.
DetailValues == {Undefined, Num(0), Obj(0)}

ErrorMessages == {"", "something failed", "email already used"}

\* Constructor argument lists: (), (message), (message, details).
ErrorArguments ==
    {<< >>} \cup {<<m>> : m \in ErrorMessages}
            \cup {<<m, d>> : m \in ErrorMessages, d \in DetailValues}

\* The HttpErrors a handler may throw: the five subclasses, and HttpError
\* itself with a status of its own.
HttpErrors ==
    {NewHttpError(class, args) : class \in DOMAIN HttpErrorClasses, args \in ErrorArguments}
        \cup {HttpError(418, m, d) : m \in ErrorMessages, d \in DetailValues}

\* Errors that are no HttpError: what ExternalApiUserRepository throws, a
\* TypeError, the framework's own.
OtherErrors ==
    { [name |-> "Error", message |-> "Not implemented for external API"],
      [name |-> "TypeError", message |-> "x is not a function"],
      ValidationFailure }

ErrorCodes == {"VALIDATION", "NOT_FOUND", "PARSE", "INTERNAL_SERVER_ERROR", "UNKNOWN"}

\* A handler throws: the framework calls onError with its code for the error
\* (UNKNOWN for an error that is not its own).
RaiseError(code, error) ==
    /\ CommitUsers(Repository)
    /\ resp' = Request("error", 0, [code |-> code, error |-> error],
                       onError(app, code, error))

NextErrors ==
    \/ \E error \in HttpErrors : RaiseError("UNKNOWN", error)
    \/ \E code \in ErrorCodes, error \in OtherErrors : RaiseError(code, error)

SpecErrors == InitUsers /\ [][NextErrors]_vars

\* --------------------------------------------------------- src/src/di/users.ts

\* The registrations of initializeUserDI(), in the order it makes them.
Registrations ==
    << [key |-> DI_KEYS.INTERNAL_USER_REPOSITORY, factory |-> "fInternalUserRepository"],
       [key |-> DI_KEYS.EXTERNAL_USER_REPOSITORY, factory |-> "fExternalUserRepository"],
       [key |-> DI_KEYS.INTERNAL_USER_USECASE, factory |-> "fInternalUserUseCase"],
       [key |-> DI_KEYS.EXTERNAL_USER_USECASE, factory |-> "fExternalUserUseCase"],
       [key |-> DI_KEYS.INTERNAL_USER_CONTROLLER, factory |-> "fInternalUserController"],
       [key |-> DI_KEYS.EXTERNAL_USER_CONTROLLER, factory |-> "fExternalUserController"] >>

RECURSIVE RegisterFrom(_, _)
\* The registrations from the i-th on, one after the other.
RegisterFrom(st, i) ==
    IF i > Len(Registrations) THEN st
    ELSE RegisterFrom(registerSingleton(st, Registrations[i].key,
                                        Registrations[i].factory), i + 1)

initializeUserDI(st) == RegisterFrom(st, 1)

getInternalUserController(st) == getSingleton(st, DI_KEYS.INTERNAL_USER_CONTROLLER, 0)
getExternalUserController(st) == getSingleton(st, DI_KEYS.EXTERNAL_USER_CONTROLLER, 0)

\* What a test registers by hand before or instead of initializeUserDI().
TestRegistrations ==
    { [key |-> DI_KEYS.INTERNAL_USER_REPOSITORY, factory |-> "fMock"],
      [key |-> DI_KEYS.INTERNAL_USER_USECASE, factory |-> "fInternalUserUseCase"],
      [key |-> DI_KEYS.INTERNAL_USER_CONTROLLER, factory |-> "fInternalUserController"] }

InitWiring ==
    /\ NoUsers
    /\ tasks = [t \in Tasks |-> Idle]
    /\ singletons = EmptyMap
    /\ factories = EmptyMap
    /\ calls = [f \in FactoryIds |-> 0]
    /\ nextRef = 1
    /\ heap = EmptyMap
    /\ last = Outcome("none", "", "", Void)
    /\ held = [k \in DiKeys |-> NotHeld]

InitializeUserDI ==
    /\ Commit(initializeUserDI(State))
    /\ last' = Outcome("initializeUserDI", "", "", Void)
    /\ held' = [k \in DiKeys |-> NotHeld]
    /\ UNCHANGED elsewhere

GetInternalUserController ==
    LET r == getInternalUserController(State)
    IN  /\ Commit(r.st)
        /\ last' = Outcome("getInternalUserController", "", "", r)
        /\ UNCHANGED held
        /\ UNCHANGED elsewhere

GetExternalUserController ==
    LET r == getExternalUserController(State)
    IN  /\ Commit(r.st)
        /\ last' = Outcome("getExternalUserController", "", "", r)
        /\ UNCHANGED held
        /\ UNCHANGED elsewhere

NextWiring ==
    \/ InitializeUserDI
    \/ \E reg \in TestRegistrations : RegisterSingleton(reg.key, reg.factory)
    \/ GetInternalUserController
    \/ GetExternalUserController
    \/ \E key \in DiKeys : GetSingleton(key)
    \/ Reset

SpecWiring == InitWiring /\ [][NextWiring]_vars

\* The wiring as the router module uses it (part_003:15-20): initializeUserDI(),
\* then both getters, with room for both chains to be built; the internal
\* repository may be registered again at any time. What callers hold (`held`)
\* is not followed here.
CommitChains(st) ==
    /\ TotalCalls(st) <= MaxConstructions
    /\ singletons' = st.singletons
    /\ factories' = st.factories
    /\ calls' = st.calls
    /\ nextRef' = st.nextRef
    /\ heap' = st.heap
    /\ UNCHANGED elsewhere

ChainInitialize ==
    /\ CommitChains(initializeUserDI(State))
    /\ last' = Outcome("initializeUserDI", "", "", Void)
    /\ UNCHANGED held

\* The repository registration of users.ts:25-28, made again on its own.
ChainRegisterRepository ==
    /\ CommitChains(registerSingleton(State, DI_KEYS.INTERNAL_USER_REPOSITORY,
                                      "fInternalUserRepository"))
    /\ last' = Outcome("registerSingleton", DI_KEYS.INTERNAL_USER_REPOSITORY,
                       "fInternalUserRepository", Void)
    /\ UNCHANGED held

ChainGetInternalUserController ==
    LET r == getInternalUserController(State)
    IN  /\ CommitChains(r.st)
        /\ last' = Outcome("getInternalUserController", "", "", r)
        /\ UNCHANGED held

ChainGetExternalUserController ==
    LET r == getExternalUserController(State)
    IN  /\ CommitChains(r.st)
        /\ last' = Outcome("getExternalUserController", "", "", r)
        /\ UNCHANGED held

ChainGetSingleton(key) ==
    LET r == getSingleton(State, key, 0)
    IN  /\ CommitChains(r.st)
        /\ last' = Outcome("getSingleton", key, "", r)
        /\ UNCHANGED held

ChainReset ==
    /\ CommitChains(reset(State))
    /\ last' = Outcome("reset", "", "", Void)
    /\ UNCHANGED held

NextChains ==
    \/ ChainInitialize
    \/ ChainRegisterRepository
    \/ ChainGetInternalUserController
    \/ ChainGetExternalUserController
    \/ \E key \in DiKeys : ChainGetSingleton(key)
    \/ ChainReset

SpecChains == InitWiring /\ [][NextChains]_vars

\* getSingleton with its statements interleaved between two tasks: the test
\* of the slot (container.ts:26), the factory call and the assignment
\* (container.ts:27) and the read that is returned (container.ts:30) are
\* separate steps. Registration is finished before the first task starts, as
\* at module load (initializeUserDI() precedes every lookup).
RaceInputs == {"fNew", "fShared"}

NoneStarted == \A t \in Tasks : tasks[t].pc = "idle"

RaceRegister(key, f) ==
    /\ NoneStarted
    /\ Commit(registerSingleton(State, key, f))
    /\ last' = Outcome("registerSingleton", key, f, Void)
    /\ UNCHANGED <<held, tasks, userVars>>

\* container.ts:21-24 and the test at line 26.
RaceCheck(t, key) ==
    /\ tasks[t].pc = "idle"
    /\ tasks' = [tasks EXCEPT ![t].key = key,
                              ![t].pc = IF ~MapHas(singletons, key) THEN "failed"
                                        ELSE IF ~IsCached(singletons[key]) THEN "invoke"
                                        ELSE "return"]
    /\ UNCHANGED <<singletons, factories, calls, nextRef, heap, last, held, userVars>>

\* container.ts:27, right-hand side: singleton.factory().
RaceInvoke(t) ==
    /\ tasks[t].pc = "invoke"
    /\ LET r == Invoke(State, singletons[tasks[t].key].factory, 0)
       IN  /\ Commit(r.st)
           /\ tasks' = [tasks EXCEPT ![t].made = r.value,
                                     ![t].pc = IF r.threw THEN "failed" ELSE "store"]
    /\ UNCHANGED <<last, held, userVars>>

\* container.ts:27, the assignment to singleton.instance.
RaceStore(t) ==
    /\ tasks[t].pc = "store"
    /\ Commit(StoreInstance(State, tasks[t].key, tasks[t].made))
    /\ tasks' = [tasks EXCEPT ![t].overwrote = IsCached(singletons[tasks[t].key]),
                              ![t].pc = "return"]
    /\ UNCHANGED <<last, held, userVars>>

\* container.ts:30: return singleton.instance.
RaceReturn(t) ==
    /\ tasks[t].pc = "return"
    /\ tasks' = [tasks EXCEPT ![t].result = singletons[tasks[t].key].instance,
                              ![t].pc = "done"]
    /\ UNCHANGED <<singletons, factories, calls, nextRef, heap, last, held, userVars>>

NextRace ==
    \/ \E key \in Keys, f \in RaceInputs : RaceRegister(key, f)
    \/ \E t \in Tasks, key \in Keys : RaceCheck(t, key)
    \/ \E t \in Tasks : RaceInvoke(t)
    \/ \E t \in Tasks : RaceStore(t)
    \/ \E t \in Tasks : RaceReturn(t)

SpecRace == Init /\ [][NextRace]_vars

\* Request handlers under cooperative scheduling: getSingleton is synchronous
\* (container.ts:20-31 has no await), so each call runs to completion and
\* handlers interleave only at their own await points. fNew stands for any
\* closure returning a new object, a pending promise included.
HandlerInputs == {"fNew", "fCount"}

\* A handler calls getSingleton(key) and then awaits something.
HandlerResolve(t, key) ==
    /\ tasks[t].pc = "idle"
    /\ LET r == getSingleton(State, key, 0)
       IN  /\ Commit(r.st)
           /\ tasks' = [tasks EXCEPT ![t].key = key,
                                     ![t].result = IF r.threw THEN NotHeld ELSE r.value,
                                     ![t].pc = IF r.threw THEN "failed" ELSE "await"]
    /\ UNCHANGED <<last, held, userVars>>

\* The awaited operation completes and the handler finishes.
HandlerResume(t) ==
    /\ tasks[t].pc = "await"
    /\ tasks' = [tasks EXCEPT ![t].pc = "done"]
    /\ UNCHANGED <<singletons, factories, calls, nextRef, heap, last, held, userVars>>

NextHandlers ==
    \/ \E key \in Keys, f \in HandlerInputs : RaceRegister(key, f)
    \/ \E t \in Tasks, key \in Keys : HandlerResolve(t, key)
    \/ \E t \in Tasks : HandlerResume(t)

SpecHandlers == Init /\ [][NextHandlers]_vars

\* ------------------------------------------------------------------- claims

\* The registry part of the state.
Registry == <<singletons, factories, calls, nextRef, heap>>

\* C1: two getSingleton(key) calls with no reset and no re-registration of the
\* key between them return the identical value, whatever the factory returns:
\* every successful getSingleton(key) returns what the first one since the
\* registration returned.
C1_SingletonIdentity ==
    \A k \in Keys :
        (last.op = "getSingleton" /\ last.key = k /\ ~last.threw /\ held[k] # NotHeld)
            => last.value = held[k]

\* C2: the factory of a singleton runs lazily and once per registration:
\* registerSingleton invokes nothing, the first successful getSingleton(key)
\* invokes one factory call, and no getSingleton(key) after a successful one
\* invokes anything.
C2_LazyExactlyOnce ==
    [][\A k \in Keys :
        /\ last'.op = "registerSingleton" => calls' = calls
        /\ (last'.op = "getSingleton" /\ last'.key = k /\ ~last'.threw
                /\ held[k] = NotHeld)
             => TotalCalls(State)' = TotalCalls(State) + 1
        /\ (last'.op = "getSingleton" /\ last'.key = k /\ held[k] # NotHeld)
             => calls' = calls
      ]_vars

\* C3: every getFactory(key) on a registered key invokes the registered
\* factory exactly once and returns that invocation's result (for a
\* constructing factory, an object that did not exist before the call);
\* nothing is cached, neither Map changes.
C3_FactoryFreshness ==
    [][\A k \in Keys :
        (last'.op = "getFactory" /\ last'.key = k /\ MapHas(factories, k)) =>
            LET f == factories[k]
            IN  /\ calls' = [calls EXCEPT ![f] = @ + 1]
                /\ FactoryCode(f).kind = "new" =>
                        /\ ~last'.threw
                        /\ last'.value = Obj(nextRef)
                        /\ ~MapHas(heap, nextRef) /\ MapHas(heap', nextRef)
                        /\ nextRef' = nextRef + 1
                /\ FactoryCode(f).kind = "shared" =>
                        /\ ~last'.threw
                        /\ last'.value = SharedObj
                        /\ nextRef' = nextRef
                /\ singletons' = singletons
                /\ factories' = factories
      ]_vars

\* Three getFactory-built objects exist and the latest call returned the third.
C3_Witness ==
    /\ last.op = "getFactory" /\ ~last.threw
    /\ MapHas(factories, last.key) /\ factories[last.key] = "fNew"
    /\ calls["fNew"] = 3 /\ last.value = Obj(3)
    /\ singletons = EmptyMap

\* C4: getSingleton / getFactory on a key without a registration in that
\* namespace throws the 'not registered' error naming the key, returns
\* nothing, and leaves the registry as it was.
C4_MissingKeyFails ==
    [][\A k \in Keys :
        /\ (last'.op = "getSingleton" /\ last'.key = k /\ ~MapHas(singletons, k)) =>
                /\ last'.threw
                /\ last'.error = [name |-> "Error",
                                  message |-> "Singleton not registered: " \o k]
                /\ Registry' = Registry
        /\ (last'.op = "getFactory" /\ last'.key = k /\ ~MapHas(factories, k)) =>
                /\ last'.threw
                /\ last'.error = [name |-> "Error",
                                  message |-> "Factory not registered: " \o k]
                /\ Registry' = Registry
      ]_vars

\* getSingleton("A") failed as unregistered although "A" is a registered
\* factory key and instances were built earlier.
C4_Witness ==
    /\ last.op = "getSingleton" /\ last.key = "A" /\ last.threw
    /\ last.error.message = "Singleton not registered: A"
    /\ MapHas(factories, "A")
    /\ nextRef > 1

\* C5: right after reset() both Maps are empty, so every key fails to resolve
\* as unregistered in both namespaces.
C5_ResetClearsAll ==
    last.op = "reset" =>
        /\ singletons = EmptyMap
        /\ factories = EmptyMap
        /\ \A k \in Keys :
              /\ getSingleton(State, k, 0).threw
              /\ getSingleton(State, k, 0).error.message = "Singleton not registered: " \o k
              /\ getFactory(State, k).threw
              /\ getFactory(State, k).error.message = "Factory not registered: " \o k

\* reset() ran after two objects had been constructed.
C5_Witness == last.op = "reset" /\ nextRef > 2

\* What closure f yields when run in registry state st, as an outcome r must
\* show it: the closures' own behaviour, independent of the container.
Produces(f, st, r) ==
    LET kind == FactoryCode(f).kind
    IN  CASE kind = "new"    -> ~r.threw /\ r.value = Obj(st.nextRef)
          [] kind = "shared" -> ~r.threw /\ r.value = SharedObj
          [] kind = "count"  -> ~r.threw /\ r.value = Num(st.calls[f])
          [] kind = "flaky"  -> IF st.calls[f] = 0
                                THEN r.threw /\ r.error = FactoryError
                                ELSE ~r.threw /\ r.value = Obj(st.nextRef)
          [] OTHER -> TRUE

\* getSingleton(k), called in the state a step leads to, runs closure f once,
\* runs no other closure, and ends as f ends.
NextGetUses(k, f) ==
    LET r == getSingleton(State', k, 0)
    IN  /\ r.st.calls = [calls' EXCEPT ![f] = @ + 1]
        /\ Produces(f, State', r)
        /\ ~r.threw => r.st.singletons[k].instance = r.value

\* C6: registerSingleton(key, f2) on a key that is registered and has not been
\* resolved invokes nothing, and the next getSingleton(key) invokes f2 (once,
\* and no other closure) and returns f2's result.
C6_OverrideBeforeResolution ==
    [][\A k \in Keys, f2 \in FactoryIds :
        (/\ last'.op = "registerSingleton" /\ last'.key = k /\ last'.arg = f2
         /\ MapHas(singletons, k)
         /\ singletons[k].instance = Undefined /\ held[k] = NotHeld) =>
            /\ calls' = calls
            /\ NextGetUses(k, f2)
      ]_vars

\* "A" was registered with fNew, never resolved (fNew never ran), and has
\* just been registered again with fCount.
C6_Witness ==
    /\ last.op = "registerSingleton" /\ last.key = "A" /\ last.arg = "fCount"
    /\ last.old = [factory |-> "fNew", instance |-> Undefined]
    /\ calls["fNew"] = 0

\* C7: registerSingleton(key, f2) on a key whose instance is cached raises
\* nothing, replaces the factory and empties the slot: the next
\* getSingleton(key) invokes f2 and returns its result.
C7_ReRegisterDropsInstance ==
    [][\A k \in Keys, f2 \in FactoryIds :
        (/\ last'.op = "registerSingleton" /\ last'.key = k /\ last'.arg = f2
         /\ MapHas(singletons, k) /\ IsCached(singletons[k])) =>
            /\ ~last'.threw
            /\ singletons'[k] = [factory |-> f2, instance |-> Undefined]
            /\ calls' = calls
            /\ NextGetUses(k, f2)
      ]_vars

\* "A" held a cached object and has just been registered again.
C7_Witness ==
    /\ last.op = "registerSingleton" /\ last.key = "A"
    /\ last.old.instance.kind = "object"
    /\ singletons["A"].instance = Undefined

\* C8: the two namespaces are independent: registerFactory leaves the
\* singleton Map alone, registerSingleton leaves the factory Map alone, and a
\* key registered in one namespace only is unregistered for the other getter.
C8_NamespacesIndependent ==
    [][\A k \in Keys :
        /\ (last'.op = "registerFactory" /\ last'.key = k) =>
                /\ singletons' = singletons
                /\ MapHas(factories', k) /\ factories'[k] = last'.arg
        /\ (last'.op = "registerSingleton" /\ last'.key = k) =>
                /\ factories' = factories
                /\ MapHas(singletons', k) /\ singletons'[k].factory = last'.arg
        /\ (last'.op = "getSingleton" /\ last'.key = k
                /\ ~MapHas(singletons, k) /\ MapHas(factories, k)) =>
                last'.threw /\ last'.error.message = "Singleton not registered: " \o k
        /\ (last'.op = "getFactory" /\ last'.key = k
                /\ MapHas(singletons, k) /\ ~MapHas(factories, k)) =>
                last'.threw /\ last'.error.message = "Factory not registered: " \o k
      ]_vars

\* registerFactory("A", ...) has just run while singleton "A" holds a cached
\* object.
C8_Witness ==
    /\ last.op = "registerFactory" /\ last.key = "A"
    /\ MapHas(singletons, "A") /\ IsCached(singletons["A"])

\* C9: when a singleton's factory throws during getSingleton(key) the error
\* reaches the caller as thrown, the key stays registered with an empty slot
\* and the next getSingleton(key) runs the factory again; and a slot that
\* holds a constructed value keeps that value for as long as the
\* registration lasts.
C9_ThrowKeepsSlotEmpty ==
    [][\A k \in Keys :
        /\ (last'.op = "getSingleton" /\ last'.key = k /\ MapHas(singletons, k)
                /\ last'.threw) =>
                /\ last'.error = FactoryError
                /\ singletons' = singletons
                /\ singletons'[k].instance = Undefined
                /\ NextGetUses(k, singletons[k].factory)
        /\ (MapHas(singletons, k) /\ singletons[k].instance # Undefined
                /\ MapHas(singletons', k)
                /\ ~(last'.op = "registerSingleton" /\ last'.key = k)) =>
                singletons'[k].instance = singletons[k].instance
      ]_vars

\* The lifecycle state of a singleton key and of a factory key.
SingletonState(m, k) ==
    IF ~MapHas(m, k) THEN "unregistered"
    ELSE IF IsCached(m[k]) THEN "instantiated" ELSE "uninstantiated"

FactoryState(m, k) == IF MapHas(m, k) THEN "registered" ELSE "unregistered"

Forward == {<<"unregistered", "uninstantiated">>, <<"uninstantiated", "instantiated">>}

\* A step keeps singleton key k where it is, moves it forward, moves it back
\* from instantiated to uninstantiated (when reRegister admits that, and the
\* step is registerSingleton on k), or is a reset; a factory key only ever
\* becomes registered, except by reset; and reset leaves no key registered.
LifecycleStep(reRegister) ==
    \A k \in Keys :
        LET s == SingletonState(singletons, k)
            t == SingletonState(singletons', k)
            u == FactoryState(factories, k)
            v == FactoryState(factories', k)
        IN  /\ \/ s = t
               \/ <<s, t>> \in Forward
               \/ /\ reRegister
                  /\ last'.op = "registerSingleton" /\ last'.key = k
                  /\ <<s, t>> = <<"instantiated", "uninstantiated">>
               \/ last'.op = "reset" /\ t = "unregistered"
            /\ \/ u = v
               \/ <<u, v>> = <<"unregistered", "registered">>
               \/ last'.op = "reset" /\ v = "unregistered"
            /\ last'.op = "reset" => t = "unregistered" /\ v = "unregistered"

\* C10 as stated: the only per-key transitions are unregistered ->
\* registered-uninstantiated -> registered-instantiated (singletons) and
\* unregistered -> registered (factories), and reset() alone, for all keys at
\* once, leads back to unregistered.
C10_OnlyForwardTransitions == [][LifecycleStep(FALSE)]_vars

\* C10 amended: as stated, plus the transition registered-instantiated ->
\* registered-uninstantiated that registerSingleton on the key itself makes.
C10_LifecycleWithReRegistration == [][LifecycleStep(TRUE)]_vars

\* An instantiated singleton key has just gone back to uninstantiated by
\* being registered again, while a factory key is registered.
C10_Witness ==
    /\ last.op = "registerSingleton"
    /\ IsCached(last.old) /\ ~IsCached(singletons[last.key])
    /\ factories # EmptyMap

\* ------------------------------------------------- singletons built from singletons

\* The key a registered, not yet instantiated singleton resolves when built
\* ("" when it resolves none or is not in that state).
DependencyOf(m, k) ==
    IF MapHas(m, k) /\ ~IsCached(m[k]) THEN FactoryCode(m[k].factory).dep ELSE ""

\* k's factory resolves a key whose own resolution comes back to k.
InCycle(m, k) ==
    LET d == DependencyOf(m, k)
    IN  d # "" /\ (d = k \/ DependencyOf(m, d) = k \/ DependencyOf(m, d) = d)

\* C11: getSingleton of a singleton whose factory resolves an unregistered key
\* throws "Singleton not registered: <that key>" and leaves the registry as
\* it was, the dependent's slot empty; once the missing key is registered
\* with a constructing factory, getSingleton of the dependent returns an
\* object built with the dependency's instance, and both are cached.
C11_MissingDependency ==
    [][\A k \in Keys :
          LET d == DependencyOf(singletons, k)
          IN  (last'.op = "getSingleton" /\ last'.key = k /\ d # "" /\ d # k) =>
                 /\ ~MapHas(singletons, d) =>
                        /\ last'.threw
                        /\ last'.error = [name |-> "Error",
                                          message |-> "Singleton not registered: " \o d]
                        /\ singletons' = singletons
                        /\ singletons'[k].instance = Undefined
                 /\ (MapHas(singletons, d) /\ singletons[d].factory = "fNew") =>
                        /\ ~last'.threw
                        /\ last'.value.kind = "object"
                        /\ singletons'[k].instance = last'.value
                        /\ IsCached(singletons'[d])
                        /\ heap'[last'.value.id] = singletons'[d].instance
      ]_vars

\* A dependent resolved at its second attempt: the first attempt ran its
\* factory and failed, the dependency was registered afterwards.
C11_Witness ==
    /\ last.op = "getSingleton" /\ last.key = "A" /\ ~last.threw
    /\ singletons["A"].factory = "fWrapB"
    /\ calls["fWrapB"] = 2 /\ calls["fNew"] = 1
    /\ heap[last.value.id] = singletons["B"].instance

\* C12: registering singletons whose factories resolve each other succeeds
\* like any registration; getSingleton of a key in such a cycle throws (the
\* recursion exhausts the stack) and leaves every slot as it was, so no
\* instance is returned or cached.
C12_CircularNeverResolves ==
    [][\A k \in Keys :
          /\ (last'.op = "registerSingleton" /\ last'.key = k) =>
                 /\ ~last'.threw
                 /\ singletons'[k] = [factory |-> last'.arg, instance |-> Undefined]
          /\ (last'.op = "getSingleton" /\ last'.key = k /\ InCycle(singletons, k)) =>
                 /\ last'.threw
                 /\ last'.error \in {StackOverflow}
                        \cup {NotRegistered("Singleton", d) : d \in Keys}
                 /\ singletons' = singletons
      ]_vars

\* A cycle between two keys was registered and its resolution overflowed.
C12_Witness ==
    /\ last.op = "getSingleton" /\ last.threw /\ last.error = StackOverflow
    /\ MapHas(singletons, "A") /\ MapHas(singletons, "B")
    /\ singletons["A"].factory = "fWrapB" /\ singletons["B"].factory = "fWrapA"
    /\ singletons["A"].instance = Undefined /\ singletons["B"].instance = Undefined

\* ------------------------------------------------------- interleaved resolution

\* Two different tasks that resolved the same key and both found its slot
\* empty, the key's factory being one that constructs.
BothInvoked(t, u) ==
    /\ t # u
    /\ tasks[t].pc = "done" /\ tasks[u].pc = "done"
    /\ tasks[t].key = tasks[u].key
    /\ tasks[t].made # NotHeld /\ tasks[u].made # NotHeld
    /\ singletons[tasks[t].key].factory = "fNew"

\* C13: when two tasks have both tested the empty slot of one key before
\* either assignment, the factory has run once for each and made two
\* instances; the assignment that came second replaced the first, so the
\* slot holds the second one's instance, and a task that read its return
\* value before being overwritten holds a different instance from the other.
C13_RaceDoubleInvocation ==
    \A t \in Tasks, u \in Tasks :
        (BothInvoked(t, u) /\ tasks[u].overwrote) =>
            /\ calls["fNew"] >= 2
            /\ tasks[t].made # tasks[u].made
            /\ ~tasks[t].overwrote
            /\ singletons[tasks[t].key].instance = tasks[u].made
            /\ tasks[u].result = tasks[u].made
            /\ tasks[t].result \in {tasks[t].made, tasks[u].made}
            /\ (tasks[t].result = tasks[t].made) => (tasks[t].result # tasks[u].result)

\* Both tasks are done and hold different instances of the same key.
C13_Witness ==
    /\ BothInvoked("t1", "t2") /\ tasks["t2"].overwrote
    /\ tasks["t1"].result.kind = "object" /\ tasks["t2"].result.kind = "object"
    /\ tasks["t1"].result # tasks["t2"].result
    /\ singletons[tasks["t1"].key].instance = tasks["t2"].result

\* --------------------------------------------------------------- the user wiring

\* The repository a controller works on: controller -> use case -> repository.
RepositoryOf(st, controller) == st.heap[st.heap[controller.id].id]

\* C14: when the mock repository is registered under INTERNAL_USER_REPOSITORY
\* and initializeUserDI() runs afterwards, the controller that
\* getInternalUserController() then returns works on the mock repository.
C14_MockSurvivesInitialize ==
    [][(/\ last'.op = "initializeUserDI"
        /\ MapHas(singletons, DI_KEYS.INTERNAL_USER_REPOSITORY)
        /\ singletons[DI_KEYS.INTERNAL_USER_REPOSITORY].factory = "fMock") =>
            LET r == getInternalUserController(State')
            IN  /\ ~r.threw
                /\ RepositoryOf(r.st, r.value) = SharedObj
      ]_vars

\* ------------------------------------------------------------ the user use case

\* Some stored user has this id.
Exists(us, id) == \E i \in 1..Len(us) : us[i].id = id

\* The position of the first stored user with this id.
First(us, id) == CHOOSE i \in 1..Len(us) : us[i].id = id /\ \A j \in 1..(i - 1) : us[j].id # id

\* The answer to a NotFoundError about this id.
IsNotFound(r) ==
    /\ r.status = 404
    /\ r.body.error = "NotFoundError"
    /\ r.body.statusCode = 404
    /\ r.body.message = "User with id " \o ToString(r.id) \o " not found"

\* C15: in every state of the in-memory and of the mock repository and for
\* every id, getUserById(id) returns the stored user of that id when one
\* exists, answered with 200, and otherwise throws NotFoundError, answered
\* with 404, error "NotFoundError" and the message "User with id <id> not
\* found"; the repository is not changed either way. Where a GET /users/:id
\* request is served by that repository, this is the answer it gets.
C15_GetUserById ==
    /\ \A id \in Ids :
          LET r == getUserById(Repository, id)
              answer == [id |-> id] @@ Respond(app, r)
          IN  /\ r.st = Repository
              /\ IF Exists(users, id)
                 THEN /\ ~r.threw
                      /\ r.value = users[First(users, id)]
                      /\ r.value.id = id
                      /\ answer.status = 200 /\ answer.body = r.value
                 ELSE /\ r.threw
                      /\ r.error.name = "NotFoundError"
                      /\ IsNotFound(answer)
    /\ (app = "test" /\ resp.op = "getUserById") =>
          IF Exists(users, resp.id)
          THEN resp.status = 200 /\ resp.body = users[First(users, resp.id)]
          ELSE IsNotFound(resp)

\* A non-empty repository was asked for an id it does not hold.
C15_Witness ==
    /\ resp.op = "getUserById" /\ resp.id = 3 /\ resp.status = 404
    /\ resp.body.error = "NotFoundError"
    /\ resp.body.message = "User with id 3 not found"
    /\ Len(users) = 2

\* C16: createUser with a valid body appends one user that has the body's
\* fields and a numeric id, and returns it; the users stored before stay as
\* they were, in place; InMemoryUserRepository gives the id 1 in an empty
\* store and otherwise the largest stored id plus one.
C16_CreateAppends ==
    [][(resp'.op = "createUser" /\ Validates(CreateUserBodySchema, resp'.data)) =>
          LET new == users'[Len(users')]
          IN  /\ resp'.status = 200
              /\ Len(users') = Len(users) + 1
              /\ SubSeq(users', 1, Len(users)) = users
              /\ DOMAIN new = DOMAIN resp'.data \cup {"id"}
              /\ \A k \in DOMAIN resp'.data : new[k] = resp'.data[k]
              /\ new.id \in Nat
              /\ resp'.body = new
              /\ app = "production" =>
                    IF Len(users) = 0 THEN new.id = 1
                    ELSE /\ \A i \in 1..Len(users) : users[i].id < new.id
                         /\ \E i \in 1..Len(users) : users[i].id + 1 = new.id
      ]_vars

\* The in-memory store held one user, of id 2, and the created user got id 3.
C16_Witness ==
    /\ app = "production"
    /\ resp.op = "createUser" /\ resp.status = 200 /\ resp.body.id = 3
    /\ Len(users) = 2 /\ users[1].id = 2 /\ users[2] = resp.body

\* C17: a POST /users whose body lacks required fields is answered with
\* status 422 and error "ValidationError", and the repository is unchanged.
C17_InvalidBodyIs422 ==
    [][(resp'.op = "createUser" /\ ~Validates(CreateUserBodySchema, resp'.data)) =>
          /\ resp'.status = 422
          /\ "error" \in DOMAIN resp'.body
          /\ resp'.body.error = "ValidationError"
          /\ users' = users
      ]_vars

\* C18: updateUser(id, data) answers 200 with {id, ...data}; a stored user of
\* that id is replaced by it in place and the count stays, otherwise it is
\* appended and the count grows by one; no other user changes.
C18_UpdateIsUpsert ==
    [][resp'.op = "updateUser" =>
          LET updated == Spread([id |-> resp'.id], resp'.data)
          IN  /\ resp'.status = 200
              /\ resp'.body = updated
              /\ resp'.body.id = resp'.id
              /\ IF Exists(users, resp'.id)
                 THEN /\ Len(users') = Len(users)
                      /\ users'[First(users, resp'.id)] = updated
                      /\ \A i \in 1..Len(users) :
                            i # First(users, resp'.id) => users'[i] = users[i]
                 ELSE /\ Len(users') = Len(users) + 1
                      /\ users'[Len(users')] = updated
                      /\ SubSeq(users', 1, Len(users)) = users
      ]_vars

\* An update of an id the store did not hold added the user at the end.
C18_Witness ==
    /\ resp.op = "updateUser" /\ resp.id = 3 /\ resp.status = 200
    /\ Len(users) = 3 /\ users[3] = resp.body /\ users[3].id = 3
    /\ users[1].id # 3 /\ users[2].id # 3

C20_DeleteRemovesOne ==
    [][resp'.op = "deleteUser" =>
          IF Exists(users, resp'.id)
          THEN LET idx == First(users, resp'.id)
               IN  /\ resp'.status = 200
                   /\ Len(users') = Len(users) - 1
                   /\ \A i \in 1..Len(users') :
                         users'[i] = IF i < idx THEN users[i] ELSE users[i + 1]
                   /\ findById([Repository EXCEPT !.users = users'], resp'.id).value = Null
          ELSE LET r == deleteUser(Repository, resp'.id)
               IN  /\ r.threw
                   /\ r.error.name = "NotFoundError"
                   /\ r.error.message = NotFoundMessage(resp'.id)
                   /\ users' = users
                   /\ hooked => IsNotFound(resp')
      ]_vars

\* ---------------------------------------------------------------- error handler

\* C21: an HttpError thrown in a handler is answered with its statusCode as
\* HTTP status and a body of error = the class name, message = the error's
\* message, statusCode = the HTTP status; the five subclasses answer 400,
\* 401, 403, 404 and 500; an error that is no HttpError and whose code is
\* not VALIDATION, NOT_FOUND or PARSE is answered with 500.
C21_ErrorMapping ==
    resp.op = "error" =>
        LET error == resp.data.error
            code == resp.data.code
        IN  IF "statusCode" \in DOMAIN error
            THEN /\ resp.status = error.statusCode
                 /\ resp.body.error = error.name
                 /\ resp.body.message = error.message
                 /\ resp.body.statusCode = resp.status
                 /\ error.name = "BadRequestError" => resp.status = 400
                 /\ error.name = "UnauthorizedError" => resp.status = 401
                 /\ error.name = "ForbiddenError" => resp.status = 403
                 /\ error.name = "NotFoundError" => resp.status = 404
                 /\ error.name = "InternalServerError" => resp.status = 500
            ELSE code \notin {"VALIDATION", "NOT_FOUND", "PARSE"} =>
                    /\ resp.status = 500
                    /\ resp.body.statusCode = 500

\* A ForbiddenError built without arguments was answered.
C21_Witness ==
    /\ resp.op = "error"
    /\ resp.data.error.name = "ForbiddenError"
    /\ resp.status = 403
    /\ resp.body = [error |-> "ForbiddenError", message |-> "Forbidden", statusCode |-> 403]

\* ------------------------------------------------------------- the two user chains

InternalKeys == {DI_KEYS.INTERNAL_USER_REPOSITORY, DI_KEYS.INTERNAL_USER_USECASE,
                 DI_KEYS.INTERNAL_USER_CONTROLLER}
ExternalKeys == {DI_KEYS.EXTERNAL_USER_REPOSITORY, DI_KEYS.EXTERNAL_USER_USECASE,
                 DI_KEYS.EXTERNAL_USER_CONTROLLER}

\* The instances cached under these keys.
InstancesOf(m, keys) == {m[k].instance : k \in {k \in keys \cap DOMAIN m : IsCached(m[k])}}

\* The objects reachable from cached instances of these keys through the
\* dependencies they were built with.
ReachableFrom(m, h, keys) ==
    LET direct == InstancesOf(m, keys)
        second == {h[v.id] : v \in {v \in direct : v.id \in DOMAIN h}}
        third == {h[v.id] : v \in {v \in second : v.kind = "object" /\ v.id \in DOMAIN h}}
    IN  {v \in direct \cup second \cup third : v.kind = "object"}

\* Nothing is cached under any of these keys, all of them registered.
AllEmpty(m, keys) == \A k \in keys : MapHas(m, k) /\ m[k].instance = Undefined

\* The closures of initializeUserDI that build the internal chain.
InternalClosures == {"fInternalUserRepository", "fInternalUserUseCase",
                     "fInternalUserController"}

\* C22: initializeUserDI() constructs nothing and leaves all six slots empty;
\* the first getInternalUserController() after it runs the internal
\* controller, use-case and repository closures once each and no other; the
\* controller it returns was built with the instance getSingleton returns
\* for the use-case key and that use case with the instance it returns for
\* the repository key; no object of the internal chain belongs to the
\* external chain.
C22_LazyChains ==
    [][/\ last'.op = "initializeUserDI" =>
             /\ calls' = calls /\ nextRef' = nextRef /\ heap' = heap
             /\ AllEmpty(singletons', DiKeys)
       /\ (last'.op = "getInternalUserController" /\ AllEmpty(singletons, InternalKeys)
              /\ singletons[DI_KEYS.INTERNAL_USER_REPOSITORY].factory
                     = "fInternalUserRepository") =>
             LET useCase == getSingleton(State', DI_KEYS.INTERNAL_USER_USECASE, 0)
                 repository == getSingleton(State', DI_KEYS.INTERNAL_USER_REPOSITORY, 0)
             IN  /\ ~last'.threw
                 /\ \A f \in FactoryIds :
                       calls'[f] = calls[f] + (IF f \in InternalClosures THEN 1 ELSE 0)
                 /\ nextRef' = nextRef + 3
                 /\ ~useCase.threw /\ ~repository.threw
                 /\ useCase.st = State' /\ repository.st = State'
                 /\ heap'[last'.value.id] = useCase.value
                 /\ heap'[useCase.value.id] = repository.value
                 /\ Cardinality({last'.value, useCase.value, repository.value}) = 3
       /\ ReachableFrom(singletons', heap', InternalKeys)
             \cap ReachableFrom(singletons', heap', ExternalKeys) = {}
      ]_vars

\* Both chains are built, each closure having run once.
C22_Witness ==
    /\ last.op = "getInternalUserController" /\ ~last.threw
    /\ \A k \in DiKeys : MapHas(singletons, k) /\ IsCached(singletons[k])
    /\ \A f \in InternalClosures : calls[f] = 1
    /\ calls["fExternalUserController"] = 1
    /\ nextRef = 7

\* The repository the cached internal use case was built with.
UseCaseRepository(m, h) == h[m[DI_KEYS.INTERNAL_USER_USECASE].instance.id]

\* The internal controller chain is resolved and linked.
ChainResolved(m, h) ==
    /\ \A k \in InternalKeys : MapHas(m, k)
    /\ IsCached(m[DI_KEYS.INTERNAL_USER_USECASE])
    /\ IsCached(m[DI_KEYS.INTERNAL_USER_CONTROLLER])
    /\ h[m[DI_KEYS.INTERNAL_USER_CONTROLLER].instance.id]
          = m[DI_KEYS.INTERNAL_USER_USECASE].instance

\* C23: with the controller chain resolved, registerSingleton on the
\* repository key leaves the cached use case and controller and what they
\* were built with untouched; the next getSingleton of the repository key
\* constructs and returns an instance that is not the one the use case
\* holds; use case and controller stay as they are through every call other
\* than initializeUserDI() and reset().
C23_NoPropagation ==
    [][ChainResolved(singletons, heap) =>
          /\ last'.op \notin {"initializeUserDI", "reset"} =>
                /\ ChainResolved(singletons', heap')
                /\ singletons'[DI_KEYS.INTERNAL_USER_USECASE]
                      = singletons[DI_KEYS.INTERNAL_USER_USECASE]
                /\ singletons'[DI_KEYS.INTERNAL_USER_CONTROLLER]
                      = singletons[DI_KEYS.INTERNAL_USER_CONTROLLER]
                /\ UseCaseRepository(singletons', heap') = UseCaseRepository(singletons, heap)
          /\ last'.op = "registerSingleton" =>
                /\ ~last'.threw
                /\ singletons'[DI_KEYS.INTERNAL_USER_REPOSITORY].instance = Undefined
                /\ heap' = heap
          /\ (/\ last'.op = "getSingleton"
              /\ last'.key = DI_KEYS.INTERNAL_USER_REPOSITORY
              /\ ~IsCached(singletons[DI_KEYS.INTERNAL_USER_REPOSITORY])) =>
                /\ ~last'.threw
                /\ last'.value = Obj(nextRef)
                /\ last'.value # UseCaseRepository(singletons', heap')
                /\ singletons'[DI_KEYS.INTERNAL_USER_REPOSITORY].instance = last'.value
      ]_vars

\* The repository key now yields a second repository while the cached use
\* case still holds the first.
C23_Witness ==
    /\ last.op = "getSingleton" /\ last.key = DI_KEYS.INTERNAL_USER_REPOSITORY
    /\ ~last.threw
    /\ ChainResolved(singletons, heap)
    /\ calls["fInternalUserRepository"] = 2 /\ calls["fInternalUserUseCase"] = 1
    /\ UseCaseRepository(singletons, heap).kind = "object"
    /\ last.value # UseCaseRepository(singletons, heap)

\* --------------------------------------------------------- cooperative handlers

\* C24: with every getSingleton call run to completion, however the handlers
\* interleave at their await points, the factories have run at most once
\* per registered key and any two handlers that resolved the same key hold
\* the same instance.
C24_HandlersShareInstance ==
    /\ TotalCalls(State) <= Cardinality(DOMAIN singletons)
    /\ \A t \in Tasks, u \in Tasks :
          (/\ tasks[t].pc \in {"await", "done"}
           /\ tasks[u].pc \in {"await", "done"}
           /\ tasks[t].key = tasks[u].key) => tasks[t].result = tasks[u].result

\* ------------------------------------------------------------ registration order

\* The three registrations of the internal chain, in the order of
\* initializeUserDI(), the repository closure being the production one or a
\* test's mock.
ChainRegistrations(repositoryFactory) ==
    << [key |-> DI_KEYS.INTERNAL_USER_REPOSITORY, factory |-> repositoryFactory],
       [key |-> DI_KEYS.INTERNAL_USER_USECASE, factory |-> "fInternalUserUseCase"],
       [key |-> DI_KEYS.INTERNAL_USER_CONTROLLER, factory |-> "fInternalUserController"] >>

\* The orders in which three calls can be made.
Orders == {p \in [1..3 -> 1..3] : \A i \in 1..3, j \in 1..3 : p[i] = p[j] => i = j}

RECURSIVE RegisterInOrder(_, _, _, _)
\* registerSingleton for regs[p[i]], regs[p[i+1]], ...
RegisterInOrder(st, regs, p, i) ==
    IF i > Len(regs) THEN st
    ELSE RegisterInOrder(registerSingleton(st, regs[p[i]].key, regs[p[i]].factory),
                         regs, p, i + 1)

\* getSingleton(controller key) after the three registrations made in order p.
ResolveAfter(st, regs, p) ==
    getSingleton(RegisterInOrder(st, regs, p, 1), DI_KEYS.INTERNAL_USER_CONTROLLER, 0)

\* C25: from any state of the registry, whichever order the repository,
\* use-case and controller registrations are made in, the following
\* getSingleton(controller key) succeeds, returns a controller built with
\* the cached use case, itself built with the cached repository, and ends in
\* the same registry and the same result as the order of initializeUserDI().
C25_OrderIrrelevant ==
    \A repositoryFactory \in {"fInternalUserRepository", "fMock"} :
        LET regs == ChainRegistrations(repositoryFactory)
            inOrder == ResolveAfter(State, regs, [i \in 1..3 |-> i])
        IN  \A p \in Orders :
                LET r == ResolveAfter(State, regs, p)
                    m == r.st.singletons
                IN  /\ ~r.threw
                    /\ r = inOrder
                    /\ m[DI_KEYS.INTERNAL_USER_CONTROLLER].instance = r.value
                    /\ r.st.heap[r.value.id] = m[DI_KEYS.INTERNAL_USER_USECASE].instance
                    /\ RepositoryOf(r.st, r.value)
                          = m[DI_KEYS.INTERNAL_USER_REPOSITORY].instance
                    /\ IsCached(m[DI_KEYS.INTERNAL_USER_REPOSITORY])

\* The chain was resolved over three registrations made one by one, in any
\* order, with the test's mock as repository (initializeUserDI() was not
\* called: the external keys have no entry).
C25_Witness ==
    /\ last.op = "getInternalUserController" /\ ~last.threw
    /\ calls["fMock"] = 1 /\ calls["fInternalUserRepository"] = 0
    /\ calls["fInternalUserUseCase"] = 1 /\ calls["fInternalUserController"] = 1
    /\ RepositoryOf(State, last.value) = SharedObj
    /\ ~MapHas(singletons, DI_KEYS.EXTERNAL_USER_REPOSITORY)

\* ------------------------------------------------------------------ unique ids

\* No two stored users have the same id.
DistinctIds(us) ==
    \A i \in 1..Len(us), j \in 1..Len(us) : us[i].id = us[j].id => i = j

\* C26: in InMemoryUserRepository, whatever create, update, patch and delete
\* calls were made from the empty store, no two stored users have the same
\* id.
C26_InMemoryIdsDistinct ==
    app = "production" => DistinctIds(users)

\* The store was begun by update(2, ...) and a create then stored its user
\* as 3, one more than the largest id.
C26_Witness ==
    /\ app = "production"
    /\ resp.op = "createUser" /\ resp.status = 200
    /\ Len(users) = 2 /\ users[1].id = 2 /\ users[2].id = 3 /\ resp.body.id = 3

\* C27: in MockUserRepository a create never returns the id of a user that
\* is already stored.
C27_MockCreateIsFresh ==
    [][(/\ app = "test"
        /\ resp'.op = "createUser"
        /\ resp'.status = 200)
          => (/\ ~Exists(users, resp'.body.id)
              /\ DistinctIds(users) => DistinctIds(users'))
      ]_vars

\* ------------------------------------------------------------------ other keys

\* The entry under a key of a Map, NoEntry when there is none.
EntryOf(m, key) == IF MapHas(m, key) THEN m[key] ELSE NoEntry

\* The closure registered under a key of the factories Map, "" when none.
FactoryOf(m, key) == IF MapHas(m, key) THEN m[key] ELSE ""

RECURSIVE Resolves(_, _, _)
\* The keys getSingleton(key) looks up: the key itself and, while the slot
\* reached is empty and its closure calls getSingleton, the key that closure
\* names; `seen` stops at a cycle.
Resolves(m, key, seen) ==
    IF key \in seen \/ ~MapHas(m, key) \/ Truthy(m[key].instance) THEN {key}
    ELSE LET code == FactoryCode(m[key].factory)
         IN  IF code.kind = "wrap"
             THEN {key} \cup Resolves(m, code.dep, seen \cup {key})
             ELSE {key}

\* The keys whose singleton a call of `op` on `key` looks up: those of
\* getSingleton(key), and for getFactory(key) those of the getSingleton call
\* its closure makes, if it makes one.
ResolvedBy(op, key) ==
    IF op = "getSingleton" THEN Resolves(singletons, key, {})
    ELSE IF MapHas(factories, key) /\ FactoryCode(factories[key]).kind = "wrap"
    THEN Resolves(singletons, FactoryCode(factories[key]).dep, {})
    ELSE {}

\* C28, as stated: registerSingleton(k, f), registerFactory(k, f) and
\* getFactory(k) leave the singleton entry (closure and cached instance) and
\* the factory registration of every key other than k as they were;
\* getSingleton(k) changes no registration in either namespace and no cache
\* slot other than those of k and of the keys its closures resolve.
C28_OtherKeysUntouched ==
    [][/\ last'.op \in {"registerSingleton", "registerFactory", "getFactory"}
          => \A j \in NamespaceKeys \ {last'.key} :
                /\ EntryOf(singletons', j) = EntryOf(singletons, j)
                /\ MapHas(singletons', j) = MapHas(singletons, j)
                /\ FactoryOf(factories', j) = FactoryOf(factories, j)
       /\ last'.op = "getSingleton"
          => /\ factories' = factories
             /\ DOMAIN singletons' = DOMAIN singletons
             /\ \A j \in DOMAIN singletons :
                   singletons'[j].factory = singletons[j].factory
             /\ \A j \in NamespaceKeys \ Resolves(singletons, last'.key, {}) :
                   EntryOf(singletons', j) = EntryOf(singletons, j)
      ]_vars

\* C28, amended: registerSingleton(k, f) and registerFactory(k, f) leave the
\* singleton entry and the factory registration of every key other than k
\* as they were; getSingleton(k) and getFactory(k) change no registration in
\* either namespace, and no cache slot other than those of the keys whose
\* singleton the call resolves: k and the keys its closures resolve for
\* getSingleton(k), the keys the closure of k resolves for getFactory(k).
C28_OnlyResolvedSlotsChange ==
    [][/\ last'.op \in {"registerSingleton", "registerFactory"}
          => \A j \in NamespaceKeys \ {last'.key} :
                /\ EntryOf(singletons', j) = EntryOf(singletons, j)
                /\ MapHas(singletons', j) = MapHas(singletons, j)
                /\ FactoryOf(factories', j) = FactoryOf(factories, j)
       /\ last'.op \in {"getSingleton", "getFactory"}
          => /\ factories' = factories
             /\ DOMAIN singletons' = DOMAIN singletons
             /\ \A j \in DOMAIN singletons :
                   singletons'[j].factory = singletons[j].factory
             /\ \A j \in NamespaceKeys \ ResolvedBy(last'.op, last'.key) :
                   EntryOf(singletons', j) = EntryOf(singletons, j)
      ]_vars

\* getFactory("C") ran a closure that resolves the singleton "A" and filled
\* A's cache slot (no caller had resolved "A", and that closure ran once),
\* while "B" kept its empty slot and the singleton "C", outside what the
\* closure resolves, kept the cached instance a caller holds.
C28_Witness ==
    /\ last.op = "getFactory" /\ last.key = "C" /\ ~last.threw
    /\ factories["C"] = "fWrapA" /\ calls["fWrapA"] = 1
    /\ MapHas(singletons, "A") /\ singletons["A"].factory = "fNew"
    /\ IsCached(singletons["A"]) /\ held["A"] = NotHeld
    /\ heap[last.value.id] = singletons["A"].instance
    /\ MapHas(singletons, "B") /\ ~IsCached(singletons["B"])
    /\ MapHas(singletons, "C") /\ singletons["C"].factory = "fNew"
    /\ IsCached(singletons["C"]) /\ held["C"] = singletons["C"].instance

\* ------------------------------------------------------------------ idempotence

\* C29: in every state of either repository and for every id and body,
\* updateUser(id, data) applied a second time leaves the repository as the
\* first application left it and returns the same user.
C29_UpdateIdempotent ==
    \A id \in Ids, data \in UserBodies :
        LET once == updateUser(Repository, id, data)
            twice == updateUser(once.st, id, data)
        IN  /\ ~once.threw /\ ~twice.threw
            /\ twice.st = once.st
            /\ twice.value = once.value
            /\ once.value = Spread([id |-> id], data)

\* updateUser(3, ...) has just added user 3 after the two sample users of
\* the mock repository.
C29_Witness ==
    /\ app = "test"
    /\ resp.op = "updateUser" /\ resp.id = 3 /\ resp.status = 200
    /\ Len(users) = 3 /\ users[1] = SampleUsers[1] /\ users[2] = SampleUsers[2]
    /\ users[3] = resp.body

\* ------------------------------------------------------------------ the router

\* The module's top-level statements: initializeUserDI(), then the two
\* controllers are resolved and kept in constants.
ModuleLoad ==
    LET empty == [singletons |-> EmptyMap, factories |-> EmptyMap,
                  calls |-> [f \in FactoryIds |-> 0], nextRef |-> 1, heap |-> EmptyMap]
        controller == getInternalUserController(initializeUserDI(empty))
        externalController == getExternalUserController(controller.st)
    IN  [st |-> externalController.st,
         constants |-> [k \in DiKeys |->
                          IF k = DI_KEYS.INTERNAL_USER_CONTROLLER THEN controller.value
                          ELSE IF k = DI_KEYS.EXTERNAL_USER_CONTROLLER
                               THEN externalController.value
                          ELSE NotHeld]]

\* The class of a repository object: the one the closure that built it
\* instantiates.
RepositoryClass(st, repository) ==
    LET key == CHOOSE k \in DOMAIN st.singletons : st.singletons[k].instance = repository
        f == st.singletons[key].factory
    IN  CASE f = "fInternalUserRepository" -> "InMemoryUserRepository"
          [] f = "fExternalUserRepository" -> "ExternalApiUserRepository"
          [] f = "fMock" -> "MockUserRepository"

\* The repository a route's handler reaches: controller.useCase.repository.
RouteRepository(route, fetched) ==
    LET class == RepositoryClass(State, RepositoryOf(State, held[RouteController(route)]))
    IN  IF class = "ExternalApiUserRepository" THEN ExternalRepository(fetched)
        ELSE [kind |-> class, users |-> users, currentId |-> currentId]

Route(route, id, body, fetched) ==
    \E a \in {Answer(route, RouteRepository(route, fetched), id, body)} :
        /\ CommitUsers(IF IsExternal(a.st) THEN Repository ELSE a.st)
        /\ resp' = Request(RouteMethod(route), id, body, a.answer)

InitRouter ==
    /\ app = "production"
    /\ hooked \in BOOLEAN
    /\ users = << >>
    /\ currentId = 1
    /\ resp = NoRequest
    /\ tasks = [t \in Tasks |-> Idle]
    /\ singletons = ModuleLoad.st.singletons
    /\ factories = ModuleLoad.st.factories
    /\ calls = ModuleLoad.st.calls
    /\ nextRef = ModuleLoad.st.nextRef
    /\ heap = ModuleLoad.st.heap
    /\ last = Outcome("none", "", "", Void)
    /\ held = ModuleLoad.constants

NextRouter ==
    \/ \E fetched \in FetchOutcomes(0) : Route("GET /", 0, << >>, fetched)
    \/ \E id \in Ids : \E fetched \in FetchOutcomes(id) :
          Route("GET /:id", id, << >>, fetched)
    \/ \E body \in UserBodies \cup {InvalidBody} : Route("POST /", 0, body, NoFetch)
    \/ \E id \in Ids, body \in UserBodies : Route("PUT /:id", id, body, NoFetch)
    \/ \E id \in Ids, body \in PatchBodies : Route("PATCH /:id/name", id, body, NoFetch)
    \/ \E id \in Ids : Route("DELETE /:id", id, << >>, NoFetch)

SpecRouter == InitRouter /\ [][NextRouter]_vars

\* The answers a GET route can give in the current state, one per outcome
\* of its fetch.
ReadAnswers(route, id) ==
    {Answer(route, RouteRepository(route, fetched), id, << >>).answer :
        fetched \in FetchOutcomes(id)}

\* The answers of the external repository alone.
ExternalAnswers(route, id) ==
    {Answer(route, ExternalRepository(fetched), id, << >>).answer :
        fetched \in FetchOutcomes(id)}

WriteMethods == {"createUser", "updateUser", "patchUser", "deleteUser"}

\* C30: in the production router a POST, PUT, PATCH or DELETE request is
\* answered by, and changes, the in-memory repository alone; a GET request
\* is answered from the external repository and changes nothing; and in
\* every state the answers the GET routes can give are those of the
\* external service, whatever was written before.
C30_WritesDoNotReachReads ==
    [][/\ resp'.op \in WriteMethods =>
            LET route == CHOOSE q \in Routes : RouteMethod(q) = resp'.op
                a == Answer(route, [kind |-> "InMemoryUserRepository",
                                    users |-> users, currentId |-> currentId],
                            resp'.id, resp'.data)
            IN  /\ users' = a.st.users
                /\ resp'.status = a.answer.status
                /\ resp'.body = a.answer.body
       /\ resp'.op \in {"getUsers", "getUserById"} =>
            LET route == CHOOSE q \in Routes : RouteMethod(q) = resp'.op
            IN  /\ users' = users
                /\ [status |-> resp'.status, body |-> resp'.body]
                      \in ExternalAnswers(route, resp'.id)
       /\ ReadAnswers("GET /", 0) = ExternalAnswers("GET /", 0)
       /\ \A id \in Ids : ReadAnswers("GET /:id", id) = ExternalAnswers("GET /:id", id)
      ]_vars

\* GET /users answered the users of the external service while the
\* in-memory repository held a user created by POST /users.
C30_Witness ==
    /\ singletons = ModuleLoad.st.singletons
    /\ held = ModuleLoad.constants
    /\ resp.op = "getUsers" /\ resp.status = 200 /\ resp.body = RemoteUsers
    /\ Len(users) = 2 /\ users[1].id = 1 /\ users[1].name = "New User"
    /\ users[2].id = 3

====
